---- MODULE Spec2Model ----
(***************************************************************************)
(* Work Logger (Dlog-Reminder): the per-day CSV log store, the summary     *)
(* aggregator and the settings that feed them.                             *)
(*                                                                         *)
(* Text is modelled as a tuple of one-character strings, so that the CSV   *)
(* writer and reader, strftime/strptime of '%H:%M' and the summary         *)
(* formatting are computed character by character, as the code does.       *)
(* Two characters outside ASCII are written as tokens: "EN_DASH" (U+2013)  *)
(* and "BULLET" (U+2022).                                                  *)
(***************************************************************************)
EXTENDS Integers, Sequences, FiniteSets, TLC

(***************************************************************************)
(* Text helpers                                                            *)
(***************************************************************************)

\* The characters of the model in code-point order (Python compares str
\* by code point).
CodePoints ==
  << "\t", "\n", "\r", " ", "\"", ",", "-", ".",
     "0", "1", "2", "3", "4", "5", "6", "7", "8", "9", ":",
     "A", "B", "C", "D", "E", "F", "G", "H", "I", "J", "K", "L", "M",
     "N", "O", "P", "Q", "R", "S", "T", "U", "V", "W", "X", "Y", "Z",
     "_",
     "a", "b", "c", "d", "e", "f", "g", "h", "i", "j", "k", "l", "m",
     "n", "o", "p", "q", "r", "s", "t", "u", "v", "w", "x", "y", "z",
     "EN_DASH", "BULLET" >>

Ord(c) == CHOOSE i \in 1..Len(CodePoints) : CodePoints[i] = c

\* Python's str < str: lexicographic by code point, a proper prefix first.
RECURSIVE StrLess(_, _)
StrLess(a, b) ==
  IF a = <<>> THEN b # <<>>
  ELSE IF b = <<>> THEN FALSE
  ELSE IF Head(a) = Head(b) THEN StrLess(Tail(a), Tail(b))
  ELSE Ord(Head(a)) < Ord(Head(b))

\* sorted(keys): the ascending list of a finite set of strings.
RECURSIVE Sorted(_)
Sorted(S) ==
  IF S = {} THEN <<>>
  ELSE LET m == CHOOSE x \in S : \A y \in S \ {x} : StrLess(x, y)
       IN  <<m>> \o Sorted(S \ {m})

RECURSIVE Concat(_)
Concat(ss) == IF ss = <<>> THEN <<>> ELSE Head(ss) \o Concat(Tail(ss))

\* sep.join(ss)
RECURSIVE Join(_, _)
Join(ss, sep) ==
  IF ss = <<>> THEN <<>>
  ELSE IF Len(ss) = 1 THEN ss[1]
  ELSE ss[1] \o sep \o Join(Tail(ss), sep)

Whitespace == {" ", "\t", "\n", "\r"}

RECURSIVE LStrip(_)
LStrip(s) ==
  IF s # <<>> /\ Head(s) \in Whitespace THEN LStrip(Tail(s)) ELSE s

RECURSIVE RStrip(_)
RStrip(s) ==
  IF s # <<>> /\ s[Len(s)] \in Whitespace
  THEN RStrip(SubSeq(s, 1, Len(s) - 1)) ELSE s

\* Without stripping.
Strip_Nothing(s) == s

\* str.strip()
Strip(s) == RStrip(LStrip(s))

Digits == <<"0", "1", "2", "3", "4", "5", "6", "7", "8", "9">>

IsDigit(c) == \E i \in 1..10 : Digits[i] = c

DigitVal(c) == (CHOOSE i \in 1..10 : Digits[i] = c) - 1

\* str(n) / f"{n}" for n >= 0
RECURSIVE IntToStr(_)
IntToStr(n) ==
  IF n < 10 THEN <<Digits[n + 1]>>
  ELSE IntToStr(n \div 10) \o <<Digits[(n % 10) + 1]>>

\* Python's None where the code can meet it in place of a str.
None == <<"<None>">>

(***************************************************************************)
(* Time of day: strftime('%H:%M') and strptime(..., '%H:%M')               *)
(***************************************************************************)

MinutesPerDay == 24 * 60

\* %H and %M: two digits, zero padded
Pad2(n) == <<Digits[(n \div 10) + 1], Digits[(n % 10) + 1]>>

\* dt.strftime('%H:%M') of a datetime whose time of day is t minutes after
\* midnight (the date part is dropped)
StrftimeHM(t) == Pad2(t \div 60) \o <<":">> \o Pad2(t % 60)

\* (now - timedelta(minutes=k)).strftime('%H:%M'): the subtraction is on the
\* full datetime, so it wraps into the previous day, and the format keeps
\* only the time of day.
MinusMinutesHM(t, k) == StrftimeHM((t - k + MinutesPerDay) % MinutesPerDay)

\* One or two decimal digits, as a number; -1 when s is not that.
NumField(s) ==
  IF Len(s) = 1 /\ IsDigit(s[1]) THEN DigitVal(s[1])
  ELSE IF Len(s) = 2 /\ IsDigit(s[1]) /\ IsDigit(s[2])
       THEN 10 * DigitVal(s[1]) + DigitVal(s[2])
       ELSE -1

ColonAt(s) == {i \in 1..Len(s) : s[i] = ":"}

\* datetime.strptime(s, '%H:%M') for a str s: the minutes after midnight, or
\* -1 for ValueError. %H is 2[0-3]|[0-1]\d|\d, %M is [0-5]\d|\d, and the
\* whole string must be consumed.
StrptimeHM(s) ==
  IF Cardinality(ColonAt(s)) # 1 THEN -1
  ELSE LET p == CHOOSE i \in ColonAt(s) : TRUE
           h == NumField(SubSeq(s, 1, p - 1))
           m == NumField(SubSeq(s, p + 1, Len(s)))
       IN  IF h < 0 \/ h > 23 \/ m < 0 \/ m > 59 THEN -1 ELSE 60 * h + m

(***************************************************************************)
(* csv.writer and csv.reader (dialect 'excel': delimiter ',', quotechar    *)
(* '"', doublequote, lineterminator '\r\n', QUOTE_MINIMAL, not strict)     *)
(***************************************************************************)

NeedsQuote(f) == \E i \in 1..Len(f) : f[i] \in {",", "\"", "\r", "\n"}

RECURSIVE DoubleQuotes(_)
DoubleQuotes(f) ==
  IF f = <<>> THEN <<>>
  ELSE (IF Head(f) = "\"" THEN <<"\"", "\"">> ELSE <<Head(f)>>)
         \o DoubleQuotes(Tail(f))

\* A mis-written field: never quoted.
WriteField_Unquoted(f) == f

\* One field as csv.writer writes it.
WriteField(f) ==
  IF NeedsQuote(f) THEN <<"\"">> \o DoubleQuotes(f) \o <<"\"">> ELSE f

\* writer.writerow(fields)
WriteRow(fields) ==
  Join([i \in 1..Len(fields) |-> WriteField(fields[i])], <<",">>)
    \o <<"\r", "\n">>

ReaderStates ==
  {"START_RECORD", "START_FIELD", "IN_FIELD", "IN_QUOTED_FIELD",
   "QUOTE_IN_QUOTED_FIELD", "EAT_CRNL"}

\* The reader's state: the parser state, the field being collected, the
\* fields of the record being collected and the records returned so far.
ReaderInit ==
  [state |-> "START_RECORD", field |-> <<>>, fields |-> <<>>, rows |-> <<>>]

SaveField(st, next) ==
  [st EXCEPT !.fields = Append(st.fields, st.field),
             !.field = <<>>, !.state = next]

AddChar(st, c, next) ==
  [st EXCEPT !.field = Append(st.field, c), !.state = next]

\* parse_process_char for a character of the line
ProcessChar(st, c) ==
  CASE st.state = "START_RECORD" /\ c \in {"\n", "\r"} ->
         [st EXCEPT !.state = "EAT_CRNL"]
    [] st.state \in {"START_RECORD", "START_FIELD"} /\ c \notin {"\n", "\r"} ->
         IF c = "\"" THEN [st EXCEPT !.state = "IN_QUOTED_FIELD"]
         ELSE IF c = "," THEN SaveField(st, "START_FIELD")
         ELSE AddChar(st, c, "IN_FIELD")
    [] st.state = "START_FIELD" /\ c \in {"\n", "\r"} ->
         SaveField(st, "EAT_CRNL")
    [] st.state = "IN_FIELD" ->
         IF c \in {"\n", "\r"} THEN SaveField(st, "EAT_CRNL")
         ELSE IF c = "," THEN SaveField(st, "START_FIELD")
         ELSE AddChar(st, c, "IN_FIELD")
    [] st.state = "IN_QUOTED_FIELD" ->
         IF c = "\"" THEN [st EXCEPT !.state = "QUOTE_IN_QUOTED_FIELD"]
         ELSE AddChar(st, c, "IN_QUOTED_FIELD")
    [] st.state = "QUOTE_IN_QUOTED_FIELD" ->
         IF c = "\"" THEN AddChar(st, c, "IN_QUOTED_FIELD")
         ELSE IF c = "," THEN SaveField(st, "START_FIELD")
         ELSE IF c \in {"\n", "\r"} THEN SaveField(st, "EAT_CRNL")
         ELSE AddChar(st, c, "IN_FIELD")
    [] st.state = "EAT_CRNL" -> st

\* parse_process_char(EOL) at the end of a line, and Reader_iternext
\* returning the record when the state is START_RECORD again.
ProcessEOL(st) ==
  LET s1 == CASE st.state \in {"START_FIELD", "IN_FIELD",
                               "QUOTE_IN_QUOTED_FIELD"} ->
                   SaveField(st, "START_RECORD")
              [] st.state = "EAT_CRNL" -> [st EXCEPT !.state = "START_RECORD"]
              [] OTHER -> st
  IN  IF s1.state = "START_RECORD"
      THEN [s1 EXCEPT !.rows = Append(s1.rows, s1.fields), !.fields = <<>>]
      ELSE s1

\* The file is opened with newline='': a line ends after '\n', after '\r\n'
\* or after a lone '\r', and keeps its terminator.
EndsLine(text, i) ==
  \/ text[i] = "\n"
  \/ text[i] = "\r" /\ ~(i < Len(text) /\ text[i + 1] = "\n")

\* End of input: a record still open (inside a quoted field) is returned.
ReaderEnd(st) ==
  IF st.state = "IN_QUOTED_FIELD" \/ st.field # <<>>
  THEN Append(st.rows, Append(st.fields, st.field))
  ELSE st.rows

\* One character of the input: parse_process_char on it, and the end of
\* line after it when it ends a line.
ReadChar(text, st, i) ==
  LET s1 == ProcessChar(st, text[i])
  IN  IF EndsLine(text, i) THEN ProcessEOL(s1) ELSE s1

\* The reader's loop over the characters lo..hi in order (the range is split
\* in halves only to keep the evaluation shallow).
RECURSIVE ReadRange(_, _, _, _)
ReadRange(text, st, lo, hi) ==
  IF lo > hi THEN st
  ELSE IF lo = hi THEN ReadChar(text, st, lo)
  ELSE LET mid == (lo + hi) \div 2
           left == ReadRange(text, st, lo, mid)
       IN  IF left.state \notin ReaderStates THEN left  \* never: forces left
           ELSE ReadRange(text, left, mid + 1, hi)

ReadAll(text) ==
  LET st == ReadRange(text, ReaderInit, 1, Len(text))
  IN  IF text # <<>> /\ ~EndsLine(text, Len(text))
      THEN ReaderEnd(ProcessEOL(st))
      ELSE ReaderEnd(st)

\* list(csv.reader(f)): every record of the text, blank lines as <<>>.
CsvReader(text) == ReadAll(text)

(***************************************************************************)
(* The log store: one CSV file per day                                     *)
(***************************************************************************)

\* DataStore.CSV_HEADERS
H_date        == <<"d", "a", "t", "e">>
H_start_time  == <<"s", "t", "a", "r", "t", "_", "t", "i", "m", "e">>
H_end_time    == <<"e", "n", "d", "_", "t", "i", "m", "e">>
H_project     == <<"p", "r", "o", "j", "e", "c", "t">>
H_task_type   == <<"t", "a", "s", "k", "_", "t", "y", "p", "e">>
H_description == <<"d", "e", "s", "c", "r", "i", "p", "t", "i", "o", "n">>

CSV_HEADERS ==
  <<H_date, H_start_time, H_end_time, H_project, H_task_type, H_description>>

\* A file of the worklog directory: absent, or present with its text.
AbsentFile == [exists |-> FALSE, text |-> <<>>]

FileOf(text) == [exists |-> TRUE, text |-> text]

\* date.strftime('%Y-%m-%d') of day n of the model's calendar (days are
\* numbered from 2024-01-01, all within one month)
DateStr(n) == <<"2", "0", "2", "4", "-", "0", "1", "-">> \o Pad2(n)

\* _ensure_csv_exists opening the file for writing whether it exists or not
EnsureCsvExists_Truncating(file) == FileOf(WriteRow(CSV_HEADERS))

\* DataStore._ensure_csv_exists: the file as it is after the call
EnsureCsvExists(file) ==
  IF file.exists THEN file ELSE FileOf(WriteRow(CSV_HEADERS))

\* csv.DictReader: row[key] for a record read under the given fieldnames.
\* dict(zip(fieldnames, row)) keeps the last of a repeated name; a name
\* past the end of a short row gets restval (None).
HasKey(fieldnames, key) == \E i \in 1..Len(fieldnames) : fieldnames[i] = key

RowGet(fieldnames, row, key) ==
  LET i == CHOOSE k \in 1..Len(fieldnames) :
             /\ fieldnames[k] = key
             /\ \A j \in (k + 1)..Len(fieldnames) : fieldnames[j] # key
  IN  IF i <= Len(row) THEN row[i] ELSE None

\* LogEntry(date=row['date'], ...)
RowEntry(fieldnames, row) ==
  [date        |-> RowGet(fieldnames, row, H_date),
   start_time  |-> RowGet(fieldnames, row, H_start_time),
   end_time    |-> RowGet(fieldnames, row, H_end_time),
   project     |-> RowGet(fieldnames, row, H_project),
   task_type   |-> RowGet(fieldnames, row, H_task_type),
   description |-> RowGet(fieldnames, row, H_description)]

\* A row raises KeyError when a column name is not among the fieldnames.
RowRaisesKeyError(fieldnames) ==
  \E i \in 1..Len(CSV_HEADERS) : ~HasKey(fieldnames, CSV_HEADERS[i])

RECURSIVE EntriesOfRows(_, _)
EntriesOfRows(fieldnames, rows) ==
  IF rows = <<>> THEN <<>>
  ELSE IF Head(rows) = <<>> \/ RowRaisesKeyError(fieldnames)
       THEN EntriesOfRows(fieldnames, Tail(rows))
       ELSE <<RowEntry(fieldnames, Head(rows))>>
              \o EntriesOfRows(fieldnames, Tail(rows))

\* DataStore.get_entries on the day's file
get_entries(file) ==
  IF ~file.exists THEN <<>>
  ELSE LET rows == CsvReader(file.text)
       IN  IF rows = <<>> THEN <<>>
           ELSE EntriesOfRows(Head(rows), Tail(rows))

\* config.REMINDER_INTERVAL_MINUTES
REMINDER_INTERVAL_MINUTES == 45

\* Python truth of an Optional[str]: None and '' are false
Truthy(s) == s # None /\ s # <<>>

\* Mis-read: the start_time of the last entry instead of its end_time.
get_last_end_time_StartOfLast(file) ==
  LET entries == get_entries(file)
  IN  IF entries # <<>> THEN entries[Len(entries)].start_time ELSE None

\* DataStore.get_last_end_time: entries[-1].end_time, or None
get_last_end_time(file) ==
  LET entries == get_entries(file)
  IN  IF entries # <<>> THEN entries[Len(entries)].end_time ELSE None

\* The start time save_entry computes at time of day t for the day's file
\* (after _ensure_csv_exists): the last end time, or else t minus the
\* interval imported from config.
StartTime(file, t) ==
  LET last_end_time == get_last_end_time(file)
  IN  IF Truthy(last_end_time) THEN last_end_time
      ELSE MinusMinutesHM(t, REMINDER_INTERVAL_MINUTES)

EntryFields(e) ==
  <<e.date, e.start_time, e.end_time, e.project, e.task_type, e.description>>

\* DataStore.save_entry on day d at time of day t: the entry returned and
\* the day's file after the append.
save_entry(file, d, t, project, task_type, description) ==
  LET f1    == EnsureCsvExists(file)
      entry == [date        |-> DateStr(d),
                start_time  |-> StartTime(f1, t),
                end_time    |-> StrftimeHM(t),
                project     |-> project,
                task_type   |-> task_type,
                description |-> description]
  IN  [entry |-> entry,
       file  |-> FileOf(f1.text \o WriteRow(EntryFields(entry)))]

(***************************************************************************)
(* The summary aggregator                                                  *)
(***************************************************************************)

\* "No Project" and "Other"
NoProject == <<"N", "o", " ", "P", "r", "o", "j", "e", "c", "t">>
OtherTask == <<"O", "t", "h", "e", "r">>

\* "No entries logged today."
NoEntriesText ==
  <<"N", "o", " ", "e", "n", "t", "r", "i", "e", "s", " ",
    "l", "o", "g", "g", "e", "d", " ", "t", "o", "d", "a", "y", ".">>

\* A dict with no key
EmptyMap == [k \in {} |-> {}]

\* m[k] = v
MapPut(m, k, v) == [x \in (DOMAIN m) \cup {k} |-> IF x = k THEN v ELSE m[x]]

\* The try block of get_summary raises what 'except ValueError' does not
\* catch: strptime of None is a TypeError. The end time is parsed only once
\* the start time has parsed.
DurationRaises(e) ==
  \/ e.start_time = None
  \/ StrptimeHM(e.start_time) >= 0 /\ e.end_time = None

\* Without the clamp of a negative duration.
DurationMinutes_NoClamp(e) ==
  LET start == StrptimeHM(e.start_time)
      end   == StrptimeHM(e.end_time)
  IN  IF start < 0 \/ end < 0 THEN 0 ELSE end - start

\* duration_minutes of an entry whose times are str
DurationMinutes(e) ==
  LET start == StrptimeHM(e.start_time)
      end   == StrptimeHM(e.end_time)
  IN  IF start < 0 \/ end < 0 THEN 0       \* except ValueError
      ELSE IF end - start < 0 THEN 0
      ELSE end - start

\* The wrong placeholder for an empty project.
ProjectKey_Other(e) == IF Truthy(e.project) THEN e.project ELSE OtherTask

\* entry.project or "No Project"
ProjectKey(e) == IF Truthy(e.project) THEN e.project ELSE NoProject

\* entry.task_type or "Other"
TaskKey(e) == IF Truthy(e.task_type) THEN e.task_type ELSE OtherTask

\* Appending the description whether or not it is empty.
AddDescription_Always(descriptions, e) == Append(descriptions, e.description)

\* if entry.description: descriptions.append(entry.description)
AddDescription(descriptions, e) ==
  IF Truthy(e.description) THEN Append(descriptions, e.description)
  ELSE descriptions

\* One turn of get_summary's loop, for an entry whose duration is computed.
AddEntry(summary, e) ==
  LET project   == ProjectKey(e)
      task_type == TaskKey(e)
      tasks  == IF project \in DOMAIN summary THEN summary[project]
                ELSE EmptyMap
      bucket == IF task_type \in DOMAIN tasks THEN tasks[task_type]
                ELSE [minutes |-> 0, descriptions |-> <<>>]
      new    == [minutes      |-> bucket.minutes + DurationMinutes(e),
                 descriptions |-> AddDescription(bucket.descriptions, e)]
  IN  MapPut(summary, project, MapPut(tasks, task_type, new))

RECURSIVE SummaryFrom(_, _, _)
SummaryFrom(entries, i, summary) ==
  IF i > Len(entries) THEN [raised |-> FALSE, summary |-> summary]
  ELSE IF DurationRaises(entries[i])
       THEN [raised |-> TRUE, summary |-> EmptyMap]
       ELSE SummaryFrom(entries, i + 1, AddEntry(summary, entries[i]))

\* DataStore.get_summary over the entries get_entries returned: the summary,
\* or raised when the loop raises.
get_summary(entries) == SummaryFrom(entries, 1, EmptyMap)

\* time_str with the hour taken from 61 minutes on
TimeStr_HourAfter60(total) ==
  LET hours   == total \div 60
      minutes == total % 60
  IN  IF total > 60
      THEN IntToStr(hours) \o <<"h", " ">> \o IntToStr(minutes) \o <<"m">>
      ELSE IntToStr(total) \o <<"m">>

\* time_str
TimeStr(total) ==
  LET hours   == total \div 60
      minutes == total % 60
  IN  IF hours > 0
      THEN IntToStr(hours) \o <<"h", " ">> \o IntToStr(minutes) \o <<"m">>
      ELSE IntToStr(minutes) \o <<"m">>

Dash == <<" ", "EN_DASH", " ">>

\* The lines appended for one (project, task_type): the heading, a bullet
\* per description, an empty line.
GroupLines(project, task_type, data) ==
  << project \o Dash \o task_type \o Dash \o TimeStr(data.minutes) >>
    \o [i \in 1..Len(data.descriptions) |->
          <<" ", " ", "BULLET", " ">> \o data.descriptions[i]]
    \o << <<>> >>

\* Keys in descending order.
RECURSIVE SortedKeys_Reversed(_)
SortedKeys_Reversed(S) ==
  IF S = {} THEN <<>>
  ELSE LET m == CHOOSE x \in S : \A y \in S \ {x} : StrLess(y, x)
       IN  <<m>> \o SortedKeys_Reversed(S \ {m})

\* sorted(d.keys())
SortedKeys(S) == Sorted(S)

RECURSIVE TaskLines(_, _, _)
TaskLines(project, tasks, keys) ==
  IF keys = <<>> THEN <<>>
  ELSE GroupLines(project, Head(keys), tasks[Head(keys)])
         \o TaskLines(project, tasks, Tail(keys))

RECURSIVE ProjectLines(_, _)
ProjectLines(summary, keys) ==
  IF keys = <<>> THEN <<>>
  ELSE TaskLines(Head(keys), summary[Head(keys)],
                 SortedKeys(DOMAIN summary[Head(keys)]))
         \o ProjectLines(summary, Tail(keys))

\* The lines of format_summary for a non-empty summary
SummaryLines(summary) == ProjectLines(summary, SortedKeys(DOMAIN summary))

\* Without the test for an empty summary.
FormatText_NoEmptyTest(summary) == Strip(Join(SummaryLines(summary), <<"\n">>))

\* format_summary's text for a summary
FormatText(summary) ==
  IF summary = EmptyMap THEN NoEntriesText
  ELSE Strip(Join(SummaryLines(summary), <<"\n">>))

\* DataStore.format_summary on the day's file, with what it calls: the
\* entries read, the summary and the text; raised when get_summary raises.
format_summary(file) ==
  LET entries == get_entries(file)
      s       == get_summary(entries)
  IN  [entries |-> entries, summary |-> s.summary, raised |-> s.raised,
       text    |-> IF s.raised THEN <<>> ELSE FormatText(s.summary)]

(***************************************************************************)
(* Settings: settings_dialog.py's get_settings_file, load_settings and     *)
(* save_settings, with json.dump and json.load on the text of the file.    *)
(***************************************************************************)

\* config.SNOOZE_DURATION_MINUTES
SNOOZE_DURATION_MINUTES == 10

\* str(config.WORKLOG_DIR), "D:\dailylogs" cut short, and another directory
WORKLOG_DIR == <<"D", ":", "\\", "l">>

OtherDir == <<"E", ":", "\\", "w">>

Dirs == {WORKLOG_DIR, OtherDir}

\* The keys of the settings as they stand in the JSON text
T_reminder_interval_minutes ==
  <<"r", "e", "m", "i", "n", "d", "e", "r", "_", "i", "n", "t", "e", "r",
    "v", "a", "l", "_", "m", "i", "n", "u", "t", "e", "s">>

T_snooze_duration_minutes ==
  <<"s", "n", "o", "o", "z", "e", "_", "d", "u", "r", "a", "t", "i", "o",
    "n", "_", "m", "i", "n", "u", "t", "e", "s">>

T_worklog_dir ==
  <<"w", "o", "r", "k", "l", "o", "g", "_", "d", "i", "r">>

T_note ==
  <<"n", "o", "t", "e">>

\* The key of a dict for a key text; every other key text is one extra key.
KeyName(text) ==
  CASE text = T_reminder_interval_minutes -> "reminder_interval_minutes"
    [] text = T_snooze_duration_minutes -> "snooze_duration_minutes"
    [] text = T_worklog_dir -> "worklog_dir"
    [] OTHER -> "note"

KeyText(name) ==
  CASE name = "reminder_interval_minutes" -> T_reminder_interval_minutes
    [] name = "snooze_duration_minutes" -> T_snooze_duration_minutes
    [] name = "worklog_dir" -> T_worklog_dir
    [] OTHER -> T_note

\* The order in which a settings dict holds its keys (insertion order)
KeyOrder ==
  <<"reminder_interval_minutes", "snooze_duration_minutes", "worklog_dir",
    "note">>

\* dict.get(key, default)
DictGet(dict, key, default) ==
  IF key \in DOMAIN dict THEN dict[key] ELSE default

\* dict[key] = value
DictSet(dict, key, value) ==
  [k \in DOMAIN dict \cup {key} |-> IF k = key THEN value ELSE dict[k]]

\* A JSON value: an int, a str or an object (its members in text order)
JInt(n) == [t |-> "int", v |-> n]

JStr(s) == [t |-> "str", v |-> s]

JObj(pairs) == [t |-> "obj", v |-> pairs]

\* json.dumps of a str: quoted, with quote, backslash and control
\* characters escaped
RECURSIVE JsonEscape(_)
JsonEscape(s) ==
  IF s = <<>> THEN <<>>
  ELSE LET c == Head(s)
       IN  (CASE c = "\"" -> <<"\\", "\"">>
              [] c = "\\" -> <<"\\", "\\">>
              [] c = "\n" -> <<"\\", "n">>
              [] c = "\r" -> <<"\\", "r">>
              [] c = "\t" -> <<"\\", "t">>
              [] OTHER -> <<c>>) \o JsonEscape(Tail(s))

JsonString(s) == <<"\"">> \o JsonEscape(s) \o <<"\"">>

\* An int or a str of the settings as JSON text
JsonScalar(key, value) ==
  IF key = "worklog_dir" \/ key = "note" THEN JsonString(value)
  ELSE IntToStr(value)

\* json.dump(settings, f, indent=2)
JsonDump(settings) ==
  LET keys  == SelectSeq(KeyOrder, LAMBDA k : k \in DOMAIN settings)
      Member(k) ==
        <<" ", " ">> \o JsonString(KeyText(k)) \o <<":", " ">>
          \o JsonScalar(k, settings[k])
  IN  IF keys = <<>> THEN <<"{", "}">>
      ELSE <<"{", "\n">>
             \o Join([i \in 1..Len(keys) |-> Member(keys[i])], <<",", "\n">>)
             \o <<"\n", "}">>

\* A byte that is no UTF-8: reading a file that holds one raises
BadByte == "BAD_BYTE"

JsonWhitespace == {" ", "\n", "\r", "\t"}

JsonFail == [ok |-> FALSE, value |-> JInt(0), next |-> 0]

At(text, i) == IF i <= Len(text) THEN text[i] ELSE "EOF"

RECURSIVE SkipWs(_, _)
SkipWs(text, i) ==
  IF At(text, i) \in JsonWhitespace THEN SkipWs(text, i + 1) ELSE i

\* A JSON integer whose digits start at position first: no leading zero,
\* no fraction and no exponent (those are floats, which no settings file of
\* the model holds)
RECURSIVE ScanDigits(_, _, _, _, _)
ScanDigits(text, i, first, sign, acc) ==
  IF IsDigit(At(text, i))
    THEN ScanDigits(text, i + 1, first, sign, acc * 10 + DigitVal(text[i]))
  ELSE IF i = first \/ (text[first] = "0" /\ i > first + 1)
            \/ At(text, i) \in {".", "e", "E"}
    THEN JsonFail
  ELSE [ok |-> TRUE, value |-> JInt(sign * acc), next |-> i]

\* A JSON integer at position i, with an optional minus sign
ScanInt(text, i) ==
  IF At(text, i) = "-" THEN ScanDigits(text, i + 1, i + 1, 0 - 1, 0)
  ELSE ScanDigits(text, i, i, 1, 0)

\* The characters of a JSON string whose opening quote is before position i
RECURSIVE ScanString(_, _, _)
ScanString(text, i, acc) ==
  LET c == At(text, i)
      e == At(text, i + 1)
  IN  IF c = "EOF" \/ c \in {"\n", "\r", "\t"} THEN JsonFail
      ELSE IF c = "\"" THEN [ok |-> TRUE, value |-> JStr(acc), next |-> i + 1]
      ELSE IF c # "\\" THEN ScanString(text, i + 1, Append(acc, c))
      ELSE IF e \notin {"\"", "\\", "/", "n", "r", "t"} THEN JsonFail
      ELSE ScanString(text, i + 2,
                      Append(acc, CASE e = "n" -> "\n"
                                    [] e = "r" -> "\r"
                                    [] e = "t" -> "\t"
                                    [] OTHER -> e))

\* An int or a str at position i
ScanScalar(text, i) ==
  IF At(text, i) = "\"" THEN ScanString(text, i + 1, <<>>)
  ELSE ScanInt(text, i)

\* The members of an object, each "key": scalar, up to the closing brace:
\* the key at position i, the colon, the value, then a comma or the brace
RECURSIVE ScanMembers(_, _, _)
NextMember(text, pairs, after) ==
  IF At(text, after) = "}"
    THEN [ok |-> TRUE, value |-> JObj(pairs), next |-> after + 1]
  ELSE IF At(text, after) = ","
    THEN ScanMembers(text, SkipWs(text, after + 1), pairs)
  ELSE JsonFail

AfterValue(text, acc, key, v) ==
  IF ~v.ok THEN JsonFail
  ELSE NextMember(text, Append(acc, <<key, v.value>>), SkipWs(text, v.next))

AfterColon(text, acc, key, colon) ==
  IF At(text, colon) # ":" THEN JsonFail
  ELSE AfterValue(text, acc, key, ScanScalar(text, SkipWs(text, colon + 1)))

AfterKey(text, acc, k) ==
  IF ~k.ok THEN JsonFail
  ELSE AfterColon(text, acc, k.value.v, SkipWs(text, k.next))

ScanMembers(text, i, acc) ==
  IF At(text, i) # "\"" THEN JsonFail
  ELSE AfterKey(text, acc, ScanString(text, i + 1, <<>>))

\* An object whose members start at position i
ScanObject(text, i) ==
  IF At(text, i) = "}"
    THEN [ok |-> TRUE, value |-> JObj(<<>>), next |-> i + 1]
    ELSE ScanMembers(text, i, <<>>)

\* A JSON value at position i: an object of ints and strs, an int or a str
\* (the values a settings file of the model holds)
ScanValue(text, i) ==
  IF At(text, i) = "{" THEN ScanObject(text, SkipWs(text, i + 1))
  ELSE ScanScalar(text, i)

\* A document is one value with nothing but white space after it
JsonDocument(text, r) ==
  IF \E i \in 1..Len(text) : text[i] = BadByte THEN JsonFail
  ELSE IF ~r.ok THEN JsonFail
  ELSE IF SkipWs(text, r.next) = Len(text) + 1 THEN r
  ELSE JsonFail

\* json.load(f): ok is FALSE when reading or parsing raises
JsonLoad(text) == JsonDocument(text, ScanValue(text, SkipWs(text, 1)))

\* The dict of a JSON object: a later member replaces an earlier one
RECURSIVE DictUpdate(_, _)
DictUpdate(dict, pairs) ==
  IF pairs = <<>> THEN dict
  ELSE DictUpdate(DictSet(dict, KeyName(Head(pairs)[1]), Head(pairs)[2].v),
                  Tail(pairs))

\* The settings file of a directory, absent when the directory holds none
SettingsFileOf(settings_files, dir) ==
  IF dir \in DOMAIN settings_files THEN settings_files[dir] ELSE AbsentFile

\* The directory named by the settings file at the default location, the
\* default directory when reading it raises
SavedWorklogDir(exists, saved) ==
  IF exists /\ saved.ok /\ saved.value.t = "obj"
    THEN DictGet(DictUpdate(<<>>, saved.value.v), "worklog_dir", WORKLOG_DIR)
    ELSE WORKLOG_DIR

DefaultLocation(default_settings_file) ==
  SavedWorklogDir(default_settings_file.exists,
                  JsonLoad(default_settings_file.text))

\* get_settings_file(): the directory whose settings.json is the settings
\* file
get_settings_file(settings_files) ==
  DefaultLocation(SettingsFileOf(settings_files, WORKLOG_DIR))

\* The hardcoded defaults of load_settings
DefaultSettings ==
  [reminder_interval_minutes |-> REMINDER_INTERVAL_MINUTES,
   snooze_duration_minutes   |-> SNOOZE_DURATION_MINUTES,
   worklog_dir               |-> WORKLOG_DIR]

\* The defaults updated with what was read, unless reading raised
UpdatedDefaults(exists, saved) ==
  IF exists /\ saved.ok /\ saved.value.t = "obj"
    THEN DictUpdate(DefaultSettings, saved.value.v)
    ELSE DefaultSettings

LoadFrom(settings_file) ==
  UpdatedDefaults(settings_file.exists, JsonLoad(settings_file.text))

\* load_settings reading the default location only
load_settings_DefaultLocation(settings_files) ==
  LoadFrom(SettingsFileOf(settings_files, WORKLOG_DIR))

\* load_settings()
load_settings(settings_files) ==
  LoadFrom(SettingsFileOf(settings_files, get_settings_file(settings_files)))

\* save_settings(settings): the settings files after it
save_settings(settings_files, settings) ==
  [d \in DOMAIN settings_files
           \cup {DictGet(settings, "worklog_dir", WORKLOG_DIR)} |->
     IF d = DictGet(settings, "worklog_dir", WORKLOG_DIR)
       THEN FileOf(JsonDump(settings))
       ELSE settings_files[d]]

\* data_store.get_worklog_dir()
get_worklog_dir(settings_files) ==
  DictGet(load_settings(settings_files), "worklog_dir", WORKLOG_DIR)

(***************************************************************************)
(* The running application                                                 *)
(***************************************************************************)

VARIABLES
  today,           \* date.today(): the day number
  now,             \* datetime.now(): minutes after midnight
  ticks,           \* how often the clock has advanced
  saved,           \* how many entries save_entry has appended
  files,           \* the day files of each directory, by day
  settings_files,  \* the settings.json of each directory
  durable,         \* the day files and settings files as forced to disk
  worklog_dir,     \* DataStore.worklog_dir of the running application
  settings,        \* WorkLoggerTray.settings
  reminder_timer,  \* WorkLoggerTray.reminder_timer
  log_dialog,      \* WorkLoggerTray.log_dialog is visible
  is_paused,       \* WorkLoggerTray.is_paused
  out              \* the last operation, its arguments and what it returned

vars ==
  <<today, now, ticks, saved, files, settings_files, durable, worklog_dir,
    settings, reminder_timer, log_dialog, is_paused, out>>

\* Bounds of the model
MaxEntries == 2   \* entries appended in one run
MaxTicks   == 1   \* clock advances in one run
MaxDay     == 2   \* days of the model's calendar
MaxRows    == 2   \* rows of a day file that the application did not write
MaxWaits   == 2   \* waits for the reminder timer in one run
MaxMinutes == 130 \* the largest bucket total that is formatted

Days == 1..MaxDay

\* The clock advances by these many minutes at a time, and a run starts at
\* 10:00 or at 23:40.
Steps == {30}
StartTimes == {600, 1420}

\* What is passed to save_entry: project, task type, description.
CaptureInputs ==
  { << <<"A">>, <<"D">>, <<"x">> >>,
    << <<"A">>, <<"D">>, <<"a", ",", "\"", "\n", "b">> >>,
    << <<"A">>, <<>>, <<>> >>,
    << <<>>, <<>>, <<>> >> }

\* The value of the reminder spin box (5..240) that the settings form saves
IntervalChoices == {10}

NoEntry ==
  [date |-> None, start_time |-> None, end_time |-> None,
   project |-> None, task_type |-> None, description |-> None]

Idle(op) ==
  [op |-> op, args |-> <<>>, entry |-> NoEntry, entries |-> <<>>,
   summary |-> EmptyMap, text |-> <<>>, raised |-> FALSE,
   settings |-> <<>>]

\* The day file of the running application's DataStore for a day
DayFile(d) == files[worklog_dir][d]

\* os.fsync(f.fileno()): what is on disk of a file becomes what was written
Fsync_Skipped(written, on_disk) == on_disk

Fsync(written, on_disk) == written

\* QTimer.start(interval): the timer runs from now; who started it and when
\* are kept as history
StartTimer(minutes, reason) ==
  [interval |-> minutes, left |-> minutes, started_by |-> reason,
   started_at |-> <<today, now>>]

\* With the snooze duration in the place of the reminder interval.
ResetTimer_SnoozeDuration(s, reason) ==
  StartTimer(DictGet(s, "snooze_duration_minutes", 10), reason)

\* WorkLoggerTray._reset_timer
ResetTimer(s, reason) ==
  StartTimer(DictGet(s, "reminder_interval_minutes", 45), reason)

NoFiles == [dir \in Dirs |-> [d \in Days |-> AbsentFile]]

NoSettingsFiles == [dir \in Dirs |-> AbsentFile]

\* WorkLoggerTray.__init__ on the files found: the settings loaded, the
\* DataStore's directory, the timer started, nothing shown
Started(loaded, dir) ==
  /\ settings = loaded
  /\ worklog_dir = dir
  /\ reminder_timer = ResetTimer(loaded, "setup")
  /\ log_dialog = FALSE
  /\ is_paused = FALSE

\* A first start on the day files and settings files of a machine
InitOn(day_files, sf) ==
  /\ today = 1
  /\ ticks = 0
  /\ saved = 0
  /\ files = day_files
  /\ settings_files = sf
  /\ durable = [files |-> day_files, settings_files |-> sf]
  /\ Started(load_settings(sf), get_worklog_dir(sf))
  /\ out = Idle("idle")

Init ==
  /\ now \in StartTimes
  /\ InitOn(NoFiles, NoSettingsFiles)

trayVars == <<reminder_timer, log_dialog, is_paused>>

storeVars == <<files, durable, saved>>

settingsVars == <<settings_files, worklog_dir, settings>>

clockVars == <<today, now, ticks>>

\* What save_entry leaves in the day file and on disk
Stored(r) ==
  /\ files' = [files EXCEPT ![worklog_dir][today] = r.file]
  /\ durable' = [durable EXCEPT
                   !.files[worklog_dir][today] = Fsync(r.file, @)]

Appended(project, task_type, description, r) ==
  /\ Stored(r)
  /\ out' = [Idle("save_entry") EXCEPT
               !.args = <<project, task_type, description>>,
               !.entry = r.entry]

\* DataStore.save_entry on the running application's files
AppendEntry(project, task_type, description) ==
  /\ saved < MaxEntries
  /\ saved' = saved + 1
  /\ Appended(project, task_type, description,
              save_entry(DayFile(today), today, now,
                         project, task_type, description))

\* DataStore.save_entry
SaveEntry(project, task_type, description) ==
  /\ AppendEntry(project, task_type, description)
  /\ UNCHANGED <<clockVars, settingsVars, trayVars>>

\* The clock after some minutes: into the next day after 23:59
ClockAfter(minutes) ==
  /\ today + ((now + minutes) \div MinutesPerDay) <= MaxDay
  /\ today' = today + ((now + minutes) \div MinutesPerDay)
  /\ now' = (now + minutes) % MinutesPerDay
  /\ ticks' = ticks + 1

\* Time passes between two calls of the store
Tick(minutes) ==
  /\ ticks < MaxTicks
  /\ ClockAfter(minutes)
  /\ out' = Idle("idle")
  /\ UNCHANGED <<storeVars, settingsVars, trayVars>>

\* SettingsDialog._on_save with a directory it accepts
\* -> WorkLoggerTray._on_settings_changed
SettingsSave(interval, snooze, dir) ==
  LET new_settings ==
        [reminder_interval_minutes |-> interval,
         snooze_duration_minutes   |-> snooze,
         worklog_dir               |-> dir]
  IN  /\ settings_files' = save_settings(settings_files, new_settings)
      /\ settings' = new_settings
      /\ reminder_timer' = ResetTimer(new_settings, "settings")
      /\ out' = [Idle("settings_save") EXCEPT !.settings = new_settings]
      /\ UNCHANGED <<clockVars, storeVars, worklog_dir, log_dialog, is_paused>>

\* DataStore.get_entries() for today
GetEntries ==
  /\ out' = [Idle("get_entries") EXCEPT
               !.entries = get_entries(DayFile(today))]
  /\ UNCHANGED <<clockVars, storeVars, settingsVars, trayVars>>

\* DataStore.get_summary() for today
GetSummary ==
  /\ LET entries == get_entries(DayFile(today))
         r       == get_summary(entries)
     IN  out' = [Idle("get_summary") EXCEPT
                   !.entries = entries, !.summary = r.summary,
                   !.raised = r.raised]
  /\ UNCHANGED <<clockVars, storeVars, settingsVars, trayVars>>

\* SummaryDialog -> DataStore.format_summary() for today
FormatSummary ==
  /\ LET r == format_summary(DayFile(today))
     IN  out' = [Idle("format_summary") EXCEPT
                   !.entries = r.entries, !.summary = r.summary,
                   !.text = r.text, !.raised = r.raised]
  /\ UNCHANGED <<clockVars, storeVars, settingsVars, trayVars>>

Next ==
  \/ \E inp \in CaptureInputs : SaveEntry(inp[1], inp[2], inp[3])
  \/ \E m \in Steps : Tick(m)
  \/ \E i \in IntervalChoices :
       SettingsSave(i, SNOOZE_DURATION_MINUTES, WORKLOG_DIR)
  \/ FormatSummary

Spec == Init /\ [][Next]_vars

(***************************************************************************)
(* Reading day files the application did not write (edited by hand, or     *)
(* left by another program): get_entries, get_summary and format_summary   *)
(* applied to a day file drawn from a pool of headers and rows.            *)
(***************************************************************************)

Soon == <<"s", "o", "o", "n">>

RowPool ==
  { \* a complete row, 09:15 to 10:00
    WriteRow(<<DateStr(1), StrftimeHM(555), StrftimeHM(600),
               <<"A">>, <<"D">>, <<"x">> >>),
    \* a complete row that ends before it starts, with empty text fields
    WriteRow(<<DateStr(1), StrftimeHM(630), StrftimeHM(600),
               <<>>, <<>>, <<>> >>),
    \* a complete row whose start time is no time
    WriteRow(<<DateStr(1), Soon, StrftimeHM(600), <<"A">>, <<"D">>, <<"y">> >>),
    \* rows with fewer columns than the header
    WriteRow(<<DateStr(1), StrftimeHM(540), StrftimeHM(600)>>),
    WriteRow(<<DateStr(1), StrftimeHM(540)>>),
    WriteRow(<<DateStr(1)>>),
    \* a blank line
    <<"\r", "\n">> }

HeaderPool ==
  { WriteRow(CSV_HEADERS),
    \* a header without the description column
    WriteRow(SubSeq(CSV_HEADERS, 1, 5)) }

RowSeqs == UNION {[1..n -> RowPool] : n \in 0..MaxRows}

FilePool ==
  {AbsentFile} \cup {FileOf(h \o Concat(rows)) : h \in HeaderPool, rows \in RowSeqs}

ReadInit ==
  /\ now = 600
  /\ \E f \in FilePool :
       InitOn([NoFiles EXCEPT ![WORKLOG_DIR][1] = f], NoSettingsFiles)

ReadNext == GetEntries \/ GetSummary \/ FormatSummary

SpecRead == ReadInit /\ [][ReadNext]_vars

(***************************************************************************)
(* Formatting a bucket total: format_summary on a day file whose one       *)
(* entry starts at 00:00 and lasts m minutes, for every m up to            *)
(* MaxMinutes.                                                             *)
(***************************************************************************)

TimedFile(m) ==
  FileOf(WriteRow(CSV_HEADERS)
           \o WriteRow(<<DateStr(1), StrftimeHM(0), StrftimeHM(m),
                         <<"A">>, <<"D">>, <<"x">> >>))

TimeInit ==
  /\ now = 600
  /\ \E m \in 0..MaxMinutes :
       InitOn([NoFiles EXCEPT ![WORKLOG_DIR][1] = TimedFile(m)],
              NoSettingsFiles)

TimeNext == FormatSummary

SpecTime == TimeInit /\ [][TimeNext]_vars

(***************************************************************************)
(* The application on a machine that holds settings files already, saved   *)
(* by an earlier run or edited by hand: the store, the settings form and   *)
(* restarts.                                                               *)
(***************************************************************************)

\* Settings as the form saves them
SettingsOf(interval, snooze, dir) ==
  [reminder_interval_minutes |-> interval,
   snooze_duration_minutes   |-> snooze,
   worklog_dir               |-> dir]

\* {"snooze_duration_minutes": 5, "note": "n"}
SnoozeOnlyText ==
  <<"{">> \o JsonString(T_snooze_duration_minutes) \o <<":", " ", "5", ",">>
    \o <<" ">> \o JsonString(T_note) \o <<":", " ">> \o JsonString(<<"n">>)
    \o <<"}">>

\* What the settings.json of the default directory holds at the start
DefaultDirPool ==
  { AbsentFile,
    FileOf(JsonDump(SettingsOf(30, 5, WORKLOG_DIR))),
    FileOf(JsonDump(SettingsOf(30, 5, OtherDir))),
    FileOf(SnoozeOnlyText),
    \* cut off while it was written
    FileOf(<<"{", "\n", " ", " ", "\"", "r">>),
    \* bytes that are no UTF-8
    FileOf(<<BadByte>>),
    \* JSON, but no object
    FileOf(<<"5">>) }

\* What the settings.json of the other directory holds at the start
OtherDirPool ==
  { AbsentFile,
    FileOf(JsonDump(SettingsOf(10, 5, OtherDir))) }

SettingsInit ==
  /\ now = 600
  /\ \E d \in DefaultDirPool, o \in OtherDirPool :
       InitOn(NoFiles, [dir \in Dirs |-> IF dir = WORKLOG_DIR THEN d ELSE o])

\* SettingsDialog.__init__ and showEvent: load_settings()
LoadSettings ==
  /\ out' = [Idle("load_settings") EXCEPT
               !.settings = load_settings(settings_files)]
  /\ UNCHANGED <<clockVars, storeVars, settingsVars, trayVars>>

\* entries[-1].project, None without entries
LastProjectOf(entries) ==
  IF entries # <<>> THEN entries[Len(entries)].project ELSE None

\* DataStore.get_last_project()
GetLastProject ==
  /\ out' = [Idle("get_last_project") EXCEPT
               !.text = LastProjectOf(get_entries(DayFile(today)))]
  /\ UNCHANGED <<clockVars, storeVars, settingsVars, trayVars>>

\* Exit and main() again: WorkLoggerTray.__init__
Restart ==
  /\ settings' = load_settings(settings_files)
  /\ worklog_dir' = get_worklog_dir(settings_files)
  /\ reminder_timer' = ResetTimer(settings', "setup")
  /\ log_dialog' = FALSE
  /\ is_paused' = FALSE
  /\ out' = Idle("restart")
  /\ UNCHANGED <<clockVars, storeVars, settings_files>>

\* Values the settings form saves in this specification
FormChoices == {SettingsOf(45, 10, WORKLOG_DIR), SettingsOf(30, 5, OtherDir)}

\* What is passed to save_entry in this specification
StoreInputs ==
  { << <<"A">>, <<"D">>, <<"x">> >>, << <<>>, <<>>, <<>> >> }

SettingsNext ==
  \/ \E inp \in StoreInputs : SaveEntry(inp[1], inp[2], inp[3])
  \/ \E s \in FormChoices :
       SettingsSave(s.reminder_interval_minutes, s.snooze_duration_minutes,
                    s.worklog_dir)
  \/ LoadSettings
  \/ GetLastProject
  \/ FormatSummary
  \/ Restart

SpecSettings == SettingsInit /\ [][SettingsNext]_vars

(***************************************************************************)
(* Crashes: the machine stops between two operations and the application   *)
(* is started again.  What was written and not forced to disk may be       *)
(* there afterwards, or not; a file that was being rewritten may be empty. *)
(***************************************************************************)

\* The (directory, day) pairs of the day files, and the directories of the
\* settings files, that hold writes not forced to disk
UnsyncedDayFiles ==
  {p \in Dirs \X Days : files[p[1]][p[2]] # durable.files[p[1]][p[2]]}

UnsyncedSettingsFiles ==
  {dir \in Dirs : settings_files[dir] # durable.settings_files[dir]}

\* A settings file after a crash: as written, as it was on disk, or
\* truncated by open(..., 'w') with nothing of the new text on disk
AfterCrash(file, on_disk, fate) ==
  CASE fate = "written" -> file
    [] fate = "old" -> on_disk
    [] OTHER -> FileOf(<<>>)

Crash ==
  /\ \E lost \in SUBSET UnsyncedDayFiles :
       files' = [dir \in Dirs |-> [d \in Days |->
                   IF <<dir, d>> \in lost THEN durable.files[dir][d]
                   ELSE files[dir][d]]]
  /\ \E fate \in [UnsyncedSettingsFiles -> {"written", "old", "torn"}] :
       settings_files' =
         [dir \in Dirs |->
            IF dir \in UnsyncedSettingsFiles
              THEN AfterCrash(settings_files[dir],
                              durable.settings_files[dir], fate[dir])
              ELSE settings_files[dir]]
  /\ durable' = [files |-> files', settings_files |-> settings_files']
  /\ settings' = load_settings(settings_files')
  /\ worklog_dir' = get_worklog_dir(settings_files')
  /\ reminder_timer' = ResetTimer(settings', "setup")
  /\ log_dialog' = FALSE
  /\ is_paused' = FALSE
  /\ out' = Idle("crash")
  /\ UNCHANGED <<clockVars, saved>>

CrashInit ==
  /\ now = 600
  /\ InitOn(NoFiles, NoSettingsFiles)

CrashNext ==
  \/ SaveEntry(<<"A">>, <<"D">>, <<"x">>)
  \/ \E m \in Steps : Tick(m)
  \/ \E s \in FormChoices :
       SettingsSave(s.reminder_interval_minutes, s.snooze_duration_minutes,
                    s.worklog_dir)
  \/ Crash

SpecCrash == CrashInit /\ [][CrashNext]_vars

(***************************************************************************)
(* The tray application: the reminder timer, the capture dialog and its    *)
(* three buttons, the window's close button, pause and resume, the         *)
(* settings form, and time passing.                                        *)
(***************************************************************************)

\* Minutes from a (day, minute of the day) to the clock
MinutesSince(at) == (today - at[1]) * MinutesPerDay + (now - at[2])

\* Time passes while the timer runs: until it expires, or five minutes
Elapse(until_expiry) ==
  LET minutes == IF until_expiry THEN reminder_timer.left ELSE 5
  IN  /\ ticks < MaxWaits
      /\ minutes > 0
      /\ minutes <= reminder_timer.left
      /\ ClockAfter(minutes)
      /\ reminder_timer' = [reminder_timer EXCEPT !.left = @ - minutes]
      /\ out' = Idle("elapse")
      /\ UNCHANGED <<storeVars, settingsVars, log_dialog, is_paused>>

\* WorkLoggerTray.show_log_dialog: a dialog is made unless one is visible
ShowLogDialog == log_dialog' = TRUE

\* QTimer.timeout -> WorkLoggerTray._on_reminder.  The timer is not
\* single-shot: it goes on with the interval of its last start().
TimerExpiry ==
  /\ reminder_timer.left = 0
  /\ reminder_timer' = StartTimer(reminder_timer.interval, "timeout")
  /\ IF ~is_paused THEN ShowLogDialog ELSE UNCHANGED log_dialog
  /\ out' = [Idle("timeout") EXCEPT
               !.args = <<reminder_timer.started_by,
                          MinutesSince(reminder_timer.started_at),
                          is_paused, log_dialog>>]
  /\ UNCHANGED <<clockVars, storeVars, settingsVars, is_paused>>

\* "Log Now" of the menu, or a double click on the tray icon
LogNow ==
  /\ ShowLogDialog
  /\ out' = Idle("log_now")
  /\ UNCHANGED <<clockVars, storeVars, settingsVars, reminder_timer, is_paused>>

\* LogEntryDialog._on_save -> WorkLoggerTray._on_entry_saved
DialogSave(description_text, project_text, task_type) ==
  /\ log_dialog
  /\ IF Strip(description_text) = <<>>
       THEN /\ out' = [Idle("dialog_save") EXCEPT
                         !.args = <<project_text, task_type,
                                    description_text>>]
            /\ UNCHANGED <<storeVars, trayVars>>
       ELSE /\ saved < MaxEntries
            /\ saved' = saved + 1
            /\ Stored(save_entry(DayFile(today), today, now,
                                 Strip(project_text), task_type,
                                 Strip(description_text)))
            /\ out' = [Idle("dialog_save") EXCEPT
                         !.args = <<project_text, task_type,
                                    description_text>>]
            /\ reminder_timer' = ResetTimer(settings, "saved")
            /\ log_dialog' = FALSE
            /\ UNCHANGED is_paused
  /\ UNCHANGED <<clockVars, settingsVars>>

\* LogEntryDialog._on_snooze -> WorkLoggerTray._on_snooze
DialogSnooze ==
  /\ log_dialog
  /\ reminder_timer' =
       StartTimer(DictGet(settings, "snooze_duration_minutes",
                          SNOOZE_DURATION_MINUTES), "snoozed")
  /\ log_dialog' = FALSE
  /\ out' = Idle("snooze")
  /\ UNCHANGED <<clockVars, storeVars, settingsVars, is_paused>>

\* LogEntryDialog._on_skip (the Skip button or Esc)
\* -> WorkLoggerTray._on_skipped
DialogSkip ==
  /\ log_dialog
  /\ reminder_timer' = ResetTimer(settings, "skipped")
  /\ log_dialog' = FALSE
  /\ out' = Idle("skip")
  /\ UNCHANGED <<clockVars, storeVars, settingsVars, is_paused>>

\* The close button of the dialog's window: QDialog.closeEvent is not
\* overridden, so the dialog is rejected and none of its three signals is
\* emitted
DialogClose ==
  /\ log_dialog
  /\ log_dialog' = FALSE
  /\ out' = Idle("dialog_close")
  /\ UNCHANGED <<clockVars, storeVars, settingsVars, reminder_timer, is_paused>>

\* WorkLoggerTray._toggle_pause(checked) of the checkable menu action
TogglePause ==
  /\ is_paused' = ~is_paused
  /\ out' = Idle("toggle_pause")
  /\ UNCHANGED <<clockVars, storeVars, settingsVars, reminder_timer, log_dialog>>

\* What is typed into the capture dialog: description, project, task type
DialogInputs ==
  { << <<" ">>, <<"A">>, <<"D">> >>,
    << <<>>, <<>>, <<"D">> >>,
    << <<"x", " ">>, <<" ", "A">>, <<"D">> >> }

TrayInputs ==
  { << <<" ">>, <<"A">>, <<"D">> >>, << <<"x">>, <<"A">>, <<"D">> >> }

\* What the settings form saves in this specification
TrayForm == SettingsOf(10, 5, WORKLOG_DIR)

TrayInit ==
  /\ now = 600
  /\ InitOn(NoFiles, NoSettingsFiles)

TrayNext ==
  \/ \E until_expiry \in BOOLEAN : Elapse(until_expiry)
  \/ TimerExpiry
  \/ LogNow
  \/ \E inp \in TrayInputs : DialogSave(inp[1], inp[2], inp[3])
  \/ DialogSnooze
  \/ DialogSkip
  \/ DialogClose
  \/ TogglePause
  \/ SettingsSave(TrayForm.reminder_interval_minutes,
                  TrayForm.snooze_duration_minutes, TrayForm.worklog_dir)

SpecTray == TrayInit /\ [][TrayNext]_vars

(***************************************************************************)
(* Capture: entries made through the capture dialog and entries made by    *)
(* calling the store.                                                      *)
(***************************************************************************)

CaptureNext ==
  \/ LogNow
  \/ \E inp \in DialogInputs : DialogSave(inp[1], inp[2], inp[3])
  \/ DialogClose
  \/ SaveEntry(<<>>, <<>>, <<>>)
  \/ \E m \in Steps : Tick(m)
  \/ GetEntries

SpecCapture == TrayInit /\ [][CaptureNext]_vars

(***************************************************************************)
(* Properties                                                              *)
(***************************************************************************)

Last(seq) == seq[Len(seq)]

\* C1: in every day file the application has written, each stored entry
\* from the second on starts at the end time of the entry stored before it,
\* however the appends were spaced in time.
C1_StartIsPreviousEnd ==
  \A d \in Days :
    LET es == get_entries(DayFile(d))
    IN  \A i \in 2..Len(es) : es[i].start_time = es[i - 1].end_time

\* C1 witness: a day with two entries appended at different times, the
\* second starting where the first ended.
C1_Witness ==
  \E d \in Days :
    LET es == get_entries(DayFile(d))
    IN  /\ Len(es) >= 2
        /\ es[2].end_time # es[1].end_time
        /\ es[2].start_time = es[1].end_time

\* C2: right after save_entry has appended the first entry of the day, the
\* entry ends at the current time and starts at the current time minus the
\* reminder interval in force in the settings.
C2_FirstStartUsesSettingsInterval ==
  (out.op = "save_entry" /\ Len(get_entries(DayFile(today))) = 1) =>
    /\ out.entry.end_time = StrftimeHM(now)
    /\ out.entry.start_time =
         MinusMinutesHM(now, settings.reminder_interval_minutes)

\* C3: right after save_entry returns an entry, get_entries of that day
\* ends with an entry equal to it field for field, and its text fields are
\* the arguments passed.
C3_RoundTrip ==
  out.op = "save_entry" =>
    LET es == get_entries(DayFile(today))
    IN  /\ es # <<>>
        /\ Last(es) = out.entry
        /\ out.entry.date = DateStr(today)
        /\ <<out.entry.project, out.entry.task_type, out.entry.description>>
             = out.args

\* C3 witness: an entry whose description needs CSV quoting (comma, quote,
\* line break) and whose project is empty or not, read back unchanged.
C3_Witness ==
  /\ out.op = "save_entry"
  /\ NeedsQuote(out.entry.description)
  /\ Len(get_entries(DayFile(today))) = 2
  /\ Last(get_entries(DayFile(today))) = out.entry

\* The records of a day file after its header line, blank lines left out.
DataRows(file) ==
  LET rows == CsvReader(file.text)
  IN  IF ~file.exists \/ rows = <<>> THEN <<>>
      ELSE SelectSeq(Tail(rows), LAMBDA r : r # <<>>)

Fieldnames(file) ==
  LET rows == CsvReader(file.text)
  IN  IF ~file.exists \/ rows = <<>> THEN <<>> ELSE Head(rows)

\* A row holds each of the six required fields: the column is in the header
\* and the row is long enough to have a value in it.
RowComplete(fieldnames, row) ==
  \A k \in 1..Len(CSV_HEADERS) :
    /\ HasKey(fieldnames, CSV_HEADERS[k])
    /\ RowGet(fieldnames, row, CSV_HEADERS[k]) # None

\* C4: get_entries does not raise and returns exactly the rows that hold
\* all six required fields, in file order; a row lacking a field (one with
\* fewer columns than the header) is left out.
C4_IncompleteRowsExcluded ==
  out.op = "get_entries" =>
    LET fn   == Fieldnames(DayFile(today))
        good == SelectSeq(DataRows(DayFile(today)),
                          LAMBDA r : RowComplete(fn, r))
    IN  /\ ~out.raised
        /\ out.entries = [i \in 1..Len(good) |-> RowEntry(fn, good[i])]

\* Minutes after midnight of a text HH:MM written by strftime
ClockMinutes(s) ==
  60 * (10 * DigitVal(s[1]) + DigitVal(s[2]))
    + 10 * DigitVal(s[4]) + DigitVal(s[5])

IsClockText(s) ==
  /\ s # None
  /\ Len(s) = 5
  /\ s[3] = ":"
  /\ \A i \in {1, 2, 4, 5} : IsDigit(s[i])
  /\ 10 * DigitVal(s[1]) + DigitVal(s[2]) <= 23
  /\ DigitVal(s[4]) <= 5

\* What an entry is to count: end minus start when both are times and the
\* difference is not negative, else nothing.
CountedMinutes(e) ==
  IF IsClockText(e.start_time) /\ IsClockText(e.end_time)
       /\ ClockMinutes(e.end_time) >= ClockMinutes(e.start_time)
  THEN ClockMinutes(e.end_time) - ClockMinutes(e.start_time)
  ELSE 0

\* The bucket an entry is to fall in
BucketOf(e) ==
  << IF e.project \in {<<>>, None} THEN NoProject ELSE e.project,
     IF e.task_type \in {<<>>, None} THEN OtherTask ELSE e.task_type >>

\* The (project, task_type) pairs of a summary
Buckets(summary) ==
  UNION { {<<p, t>> : t \in DOMAIN summary[p]} : p \in DOMAIN summary }

\* The places in es of the entries of bucket b
InBucket(es, b) == {i \in 1..Len(es) : BucketOf(es[i]) = b}

RECURSIVE SumCounted(_, _)
SumCounted(es, I) ==
  IF I = {} THEN 0
  ELSE LET i == CHOOSE j \in I : TRUE
       IN  CountedMinutes(es[i]) + SumCounted(es, I \ {i})

\* C5: whatever the start and end values of the entries get_entries
\* returned (no time, missing, end before start), get_summary returns a
\* summary, each bucket's minutes are the sum of what its entries are to
\* count (nothing for such an entry), and no total is negative.
C5_BadTimesCountZero ==
  out.op = "get_summary" =>
    /\ ~out.raised
    /\ \A b \in Buckets(out.summary) :
         /\ out.summary[b[1]][b[2]].minutes >= 0
         /\ out.summary[b[1]][b[2]].minutes
              = SumCounted(out.entries, InBucket(out.entries, b))

\* The same, of the summaries that get_summary does return.
C5_WhenReturned ==
  (out.op = "get_summary" /\ ~out.raised) =>
    \A b \in Buckets(out.summary) :
      /\ out.summary[b[1]][b[2]].minutes >= 0
      /\ out.summary[b[1]][b[2]].minutes
           = SumCounted(out.entries, InBucket(out.entries, b))

\* A day without an appended entry: no file, or the header alone
NothingAppended(file) == ~file.exists \/ file.text = WriteRow(CSV_HEADERS)

\* C6: for a day with no appended entry (no day file, or the header alone)
\* get_summary returns the empty mapping and format_summary returns
\* exactly "No entries logged today.".
C6_NoEntries ==
  NothingAppended(DayFile(today)) =>
    /\ out.op = "get_summary" => ~out.raised /\ out.summary = EmptyMap
    /\ out.op = "format_summary" =>
         ~out.raised /\ out.summary = EmptyMap /\ out.text = NoEntriesText

\* C6 witness: format_summary has run on a day file holding the header
\* alone.
C6_Witness ==
  /\ DayFile(today).exists
  /\ DayFile(today).text = WriteRow(CSV_HEADERS)
  /\ out.op = "format_summary"
  /\ out.text = NoEntriesText

\* C7: in the summary format_summary computes for the day, a bucket exists
\* exactly when an entry of the day falls in it, and its minutes are the sum
\* over those entries of max(0, end - start) in minutes.
C7_BucketMinutes ==
  out.op = "format_summary" =>
    /\ ~out.raised
    /\ out.entries = get_entries(DayFile(today))
    /\ Buckets(out.summary)
         = {BucketOf(out.entries[i]) : i \in 1..Len(out.entries)}
    /\ \A b \in Buckets(out.summary) :
         out.summary[b[1]][b[2]].minutes
           = SumCounted(out.entries, InBucket(out.entries, b))

\* C7 witness: 09:15-10:00 and 10:00-10:30 in one bucket give 75 minutes.
C7_Witness ==
  /\ out.op = "format_summary"
  /\ Len(out.entries) = 2
  /\ out.entries[1].start_time = StrftimeHM(555)
  /\ out.entries[2].end_time = StrftimeHM(630)
  /\ <<"A">> \in DOMAIN out.summary
  /\ <<"D">> \in DOMAIN out.summary[<<"A">>]
  /\ out.summary[<<"A">>][<<"D">>].minutes = 75

\* C8: each bucket's descriptions are the non-empty descriptions of the
\* entries of that bucket, in the order of the entries in the day file;
\* an entry with an empty description adds none.
C8_BucketDescriptions ==
  out.op = "format_summary" =>
    \A b \in Buckets(out.summary) :
      LET sel == SelectSeq(out.entries,
                           LAMBDA e : BucketOf(e) = b /\ e.description # <<>>)
      IN  out.summary[b[1]][b[2]].descriptions
            = [i \in 1..Len(sel) |-> sel[i].description]

\* C8 witness: a bucket of two entries whose descriptions are listed in file
\* order (not in sorted order).
C8_Witness ==
  /\ out.op = "format_summary"
  /\ <<"A">> \in DOMAIN out.summary
  /\ <<"D">> \in DOMAIN out.summary[<<"A">>]
  /\ out.summary[<<"A">>][<<"D">>].descriptions
       = << <<"x">>, <<"a", ",", "\"", "\n", "b">> >>
  /\ out.entries[1].description = <<"x">>

\* C8 second case: an entry with an empty description is in no list and
\* its minutes are in the total.
C8_EmptyStillCounts ==
  /\ out.op = "format_summary"
  /\ <<"A">> \in DOMAIN out.summary
  /\ OtherTask \in DOMAIN out.summary[<<"A">>]
  /\ out.summary[<<"A">>][OtherTask].descriptions = <<>>
  /\ out.summary[<<"A">>][OtherTask].minutes > 0

\* C9: an entry with an empty project is summed under "No Project" and one
\* with an empty task type under "Other", no bucket has an empty name, and
\* the stored record keeps the empty value that was passed.
C9_Placeholders ==
  /\ out.op = "format_summary" =>
       /\ \A i \in 1..Len(out.entries) :
            LET e == out.entries[i]
                p == IF e.project = <<>> THEN NoProject ELSE e.project
                t == IF e.task_type = <<>> THEN OtherTask ELSE e.task_type
            IN  /\ p \in DOMAIN out.summary
                /\ t \in DOMAIN out.summary[p]
                /\ out.summary[p][t].minutes >= CountedMinutes(e)
       /\ \A b \in Buckets(out.summary) : b[1] # <<>> /\ b[2] # <<>>
  /\ out.op = "save_entry" =>
       LET e == Last(get_entries(DayFile(today)))
       IN  e.project = out.args[1] /\ e.task_type = out.args[2]

\* C9 witness: the summary of a day whose stored entry has an empty project
\* and an empty task type, with a positive duration under the placeholders.
C9_Witness ==
  /\ out.op = "format_summary"
  /\ \E i \in 1..Len(out.entries) :
       out.entries[i].project = <<>> /\ out.entries[i].task_type = <<>>
  /\ NoProject \in DOMAIN out.summary
  /\ OtherTask \in DOMAIN out.summary[NoProject]
  /\ out.summary[NoProject][OtherTask].minutes > 0

\* Bucket a comes before bucket b: by project name, then by task type name
Before(a, b) ==
  \/ StrLess(a[1], b[1])
  \/ a[1] = b[1] /\ StrLess(a[2], b[2])

\* The buckets in that order
InOrder(B) ==
  [k \in 1..Cardinality(B) |->
     CHOOSE b \in B : Cardinality({a \in B : Before(a, b)}) = k - 1]

\* A bucket's group: its heading line, then a bullet line per description
GroupText(summary, b) ==
  LET data == summary[b[1]][b[2]]
  IN  Join(<< b[1] \o <<" ", "EN_DASH", " ">> \o b[2]
                \o <<" ", "EN_DASH", " ">> \o TimeStr(data.minutes) >>
           \o [i \in 1..Len(data.descriptions) |->
                 <<" ", " ", "BULLET", " ">> \o data.descriptions[i]],
           <<"\n">>)

\* C10: the text of a non-empty summary is one group per bucket, the
\* buckets ordered by project name and then by task type name, each group a
\* heading line followed by one bullet line per description in list order,
\* with a blank line between groups.
C10_FormatGroups ==
  (out.op = "format_summary" /\ out.summary # EmptyMap) =>
    LET order == InOrder(Buckets(out.summary))
    IN  out.text
          = Join([k \in 1..Len(order) |-> GroupText(out.summary, order[k])],
                 <<"\n", "\n">>)

\* C10 witness: a summary of two task types of one project, formatted.
C10_Witness ==
  /\ out.op = "format_summary"
  /\ <<"A">> \in DOMAIN out.summary
  /\ DOMAIN out.summary[<<"A">>] = {<<"D">>, OtherTask}
  /\ Len(out.summary[<<"A">>][<<"D">>].descriptions) = 1
  /\ out.text # <<>>

\* The text "<m>m" below an hour, "<m div 60>h <m mod 60>m" from an hour on
MinutesText(m) ==
  IF m < 60 THEN IntToStr(m) \o <<"m">>
  ELSE IntToStr(m \div 60) \o <<"h", " ">> \o IntToStr(m % 60) \o <<"m">>

\* The first line of a text
FirstLine(text) ==
  IF \E i \in 1..Len(text) : text[i] = "\n"
    THEN SubSeq(text, 1, (CHOOSE i \in 1..Len(text) :
                            /\ text[i] = "\n"
                            /\ \A j \in 1..(i - 1) : text[j] # "\n") - 1)
    ELSE text

\* C11: in the text of format_summary, the heading of a bucket whose total
\* is m minutes ends with "<m>m" when m < 60 and with
\* "<m div 60>h <m mod 60>m" when m >= 60, for every total m of a day file
\* with one entry from 00:00 to m minutes later.
C11_TimeText ==
  (out.op = "format_summary" /\ ~out.raised) =>
    \E m \in 0..MaxMinutes :
      /\ DayFile(today) = TimedFile(m)
      /\ out.summary[<<"A">>][<<"D">>].minutes = m
      /\ FirstLine(out.text)
           = <<"A">> \o Dash \o <<"D">> \o Dash \o MinutesText(m)

\* C11 witness: a total of exactly 60 minutes, formatted as "1h 0m".
C11_Witness ==
  /\ out.op = "format_summary"
  /\ out.summary[<<"A">>][<<"D">>].minutes = 60
  /\ FirstLine(out.text)
       = <<"A">> \o Dash \o <<"D">> \o Dash \o <<"1", "h", " ", "0", "m">>

IsPrefix(s, t) == Len(s) <= Len(t) /\ SubSeq(t, 1, Len(s)) = s

\* A day file is kept: it is as it was, or it still exists, its text starts
\* with the text it had and the records get_entries reads from it start with
\* the records it read before
FileKept(before, after) ==
  \/ after = before
  \/ /\ before.exists => (after.exists /\ IsPrefix(before.text, after.text))
     /\ IsPrefix(get_entries(before), get_entries(after))

\* C12: in every step of the application (save_entry, the read operations,
\* the derived queries, loading and saving settings, a restart) every day
\* file of every directory is kept, header and records; and in every step
\* but a restart so is each day file the running application's get_entries
\* reads, so what it returned before is a prefix of what it returns after.
C12_AppendOnly ==
  [][ /\ \A dir \in Dirs, d \in Days : FileKept(files[dir][d], files'[dir][d])
      /\ out'.op # "restart" =>
           \A d \in Days :
             FileKept(files[worklog_dir][d], files'[worklog_dir'][d]) ]_vars

\* C12 witness: a second record was appended to a day file after the
\* settings were saved and read, the first record still in front.
C12_Witness ==
  /\ out.op = "save_entry"
  /\ Len(get_entries(DayFile(today))) = 2
  /\ get_entries(DayFile(today))[2] = out.entry
  /\ \E dir \in Dirs : settings_files[dir].exists

\* The values a settings file holds: the members of its JSON object, none
\* when the file is absent, unreadable or no JSON object
Persisted(file) ==
  IF file.exists /\ JsonLoad(file.text).ok
       /\ JsonLoad(file.text).value.t = "obj"
    THEN DictUpdate(<<>>, JsonLoad(file.text).value.v)
    ELSE <<>>

\* The settings file: settings.json in the directory that the file at the
\* default location names, and the file at the default location itself
\* when it names none
TheSettingsFile ==
  LET at_default == Persisted(settings_files[WORKLOG_DIR])
  IN  IF "worklog_dir" \in DOMAIN at_default
        THEN settings_files[at_default.worklog_dir]
        ELSE settings_files[WORKLOG_DIR]

\* C13: load_settings returns, for each key of the defaults and of the
\* settings file, the persisted value when the file holds one and the
\* default otherwise; when the settings file is absent, unreadable or not
\* valid JSON it returns exactly the defaults: 45, 10 and the default
\* directory.
C13_DefaultsOverridden ==
  out.op = "load_settings" =>
    LET persisted == Persisted(TheSettingsFile)
    IN  /\ ~out.raised
        /\ DOMAIN out.settings = DOMAIN DefaultSettings \cup DOMAIN persisted
        /\ \A k \in DOMAIN out.settings :
             out.settings[k] = IF k \in DOMAIN persisted THEN persisted[k]
                               ELSE DefaultSettings[k]
        /\ (~TheSettingsFile.exists \/ ~JsonLoad(TheSettingsFile.text).ok)
             => out.settings = [reminder_interval_minutes |-> 45,
                                snooze_duration_minutes   |-> 10,
                                worklog_dir               |-> WORKLOG_DIR]

\* C13 witness: the settings file exists and is not valid JSON, and
\* load_settings has returned the defaults.
C13_Witness ==
  /\ out.op = "load_settings"
  /\ TheSettingsFile.exists
  /\ ~JsonLoad(TheSettingsFile.text).ok
  /\ out.settings = DefaultSettings

\* Reached as well: one persisted value overrides its default, the other
\* defaults stay.
C13_PartialOverride ==
  /\ out.op = "load_settings"
  /\ out.settings = [reminder_interval_minutes |-> 45,
                     snooze_duration_minutes   |-> 5,
                     worklog_dir               |-> WORKLOG_DIR,
                     note                      |-> <<"n">>]

\* C16: save_entry appends to, and format_summary reads from, the day file
\* in the storage directory of the settings in force: the directory the
\* settings form saved last in this run, or the one loaded at the start.
C16_StoreFollowsSettings ==
  LET in_dir == files[settings.worklog_dir][today]
  IN  /\ out.op = "save_entry" =>
           /\ get_entries(in_dir) # <<>>
           /\ Last(get_entries(in_dir)) = out.entry
      /\ out.op = "format_summary" => out.entries = get_entries(in_dir)

\* C19: right after the settings form has saved settings s, load_settings()
\* returns s.
C19_SettingsRoundTrip ==
  out.op = "settings_save" => load_settings(settings_files) = out.settings

\* The round trip holds when the saved directory is the default directory.
C19_AtDefaultLocation ==
  (out.op = "settings_save" /\ out.settings.worklog_dir = WORKLOG_DIR)
    => load_settings(settings_files) = out.settings

\* C14: when save_entry returns, the day file it appended to is on disk as
\* it was written; and in every crash, whatever was written without being
\* forced to disk (the settings files) surviving or not, the application
\* started again reads from every day the records get_entries returned
\* before the crash, under the six-column header, the record save_entry
\* returned just before the crash last.
C14_CrashSafeAppend ==
  [][ /\ out'.op = "save_entry" =>
           durable'.files[worklog_dir'][today'] = files'[worklog_dir'][today']
      /\ out'.op = "crash" =>
           /\ \A d \in Days :
                /\ get_entries(files'[worklog_dir'][d])
                     = get_entries(files[worklog_dir][d])
                /\ files[worklog_dir][d].exists =>
                     Fieldnames(files'[worklog_dir'][d]) = CSV_HEADERS
           /\ out.op = "save_entry" =>
                /\ get_entries(files'[worklog_dir'][today']) # <<>>
                /\ Last(get_entries(files'[worklog_dir'][today'])) = out.entry
    ]_vars

\* C14 witness: after a crash that followed a save_entry and a settings
\* save whose file was lost, the day file still holds the entry.
C14_Witness ==
  /\ out.op = "crash"
  /\ get_entries(DayFile(today)) # <<>>
  /\ \A dir \in Dirs : ~settings_files[dir].exists
  /\ durable.files = files

\* The reminder timer has just been restarted at the normal interval
TimerRestarted ==
  /\ reminder_timer.interval
       = DictGet(settings, "reminder_interval_minutes", 45)
  /\ reminder_timer.left = reminder_timer.interval
  /\ reminder_timer.started_at = <<today, now>>

\* C15: after the capture dialog was closed with the close button of its
\* window, the reminder timer has been restarted at the normal reminder
\* interval, as after Skip.
C15_CloseIsSkip == out.op = "dialog_close" => TimerRestarted

\* After Skip the timer has been restarted at the normal interval, and
\* neither Skip nor the close button appends an entry.
C15_SkipRestarts ==
  [][ /\ out'.op = "skip" => TimerRestarted'
      /\ out'.op \in {"skip", "dialog_close"} => files' = files ]_vars

\* The close button was used while the timer ran at the snooze duration.
C15_ClosedWhileSnoozeInterval ==
  /\ out.op = "dialog_close"
  /\ reminder_timer.interval
       = DictGet(settings, "snooze_duration_minutes", SNOOZE_DURATION_MINUTES)

\* A text of whitespace only
Blank(s) == \A i \in 1..Len(s) : s[i] \in Whitespace

\* C17: Save in the capture dialog with an empty or whitespace-only
\* description changes no file, does not restart the timer (no entry_saved)
\* and leaves the dialog open; with another description the entry last in
\* the day file has a description that is not empty; and save_entry called
\* with an empty description stores an entry whose description is empty.
C17_DescriptionRequired ==
  [][ /\ out'.op = "dialog_save" =>
           IF Blank(out'.args[3])
             THEN /\ files' = files
                  /\ saved' = saved
                  /\ reminder_timer' = reminder_timer
                  /\ log_dialog'
             ELSE /\ get_entries(files'[worklog_dir'][today']) # <<>>
                  /\ ~Blank(Last(get_entries(files'[worklog_dir'][today']))
                              .description)
                  /\ ~log_dialog'
      /\ (out'.op = "save_entry" /\ out'.args[3] = <<>>) =>
           /\ out'.entry.description = <<>>
           /\ get_entries(files'[worklog_dir'][today']) # <<>>
           /\ Last(get_entries(files'[worklog_dir'][today'])).description
                = <<>>
    ]_vars

\* C17 witness: Save was pressed with a description of one space, after
\* save_entry had stored an entry with an empty description: the dialog is
\* still open.
C17_Witness ==
  /\ out.op = "dialog_save"
  /\ out.args[3] = <<" ">>
  /\ log_dialog
  /\ get_entries(DayFile(today)) # <<>>
  /\ Last(get_entries(DayFile(today))).description = <<>>

\* An entry made through the capture dialog is in the day file.
C17_SavedByDialog ==
  /\ out.op = "dialog_save"
  /\ ~Blank(out.args[3])
  /\ Last(get_entries(DayFile(today))).description = <<"x">>

\* C18: a reminder timer that expires after an entry was saved or the
\* dialog was skipped does so one reminder interval after that, one that
\* expires after a snooze does so one snooze duration after it, and an
\* expiry while reminders are paused leaves the capture dialog as it was.
C18_Rescheduled ==
  out.op = "timeout" =>
    /\ out.args[1] \in {"saved", "skipped"} =>
         out.args[2] = DictGet(settings, "reminder_interval_minutes", 45)
    /\ out.args[1] = "snoozed" =>
         out.args[2] = DictGet(settings, "snooze_duration_minutes",
                               SNOOZE_DURATION_MINUTES)
    /\ out.args[3] => log_dialog = out.args[4]

\* C18 witness: the timer expired after an entry was saved through the
\* dialog, and the dialog is shown again.
C18_Witness ==
  /\ out.op = "timeout"
  /\ out.args[1] = "saved"
  /\ get_entries(DayFile(today)) # <<>>
  /\ log_dialog

\* The timer expired after a snooze; after a skip; while paused with no
\* dialog shown.
C18_AfterSnooze == out.op = "timeout" /\ out.args[1] = "snoozed"

C18_AfterSkip == out.op = "timeout" /\ out.args[1] = "skipped"

C18_WhilePaused ==
  out.op = "timeout" /\ out.args[3] /\ ~out.args[4] /\ ~log_dialog

\* The sum of the minutes over all buckets of a summary
RECURSIVE SumBuckets(_, _)
SumBuckets(summary, B) ==
  IF B = {} THEN 0
  ELSE LET b == CHOOSE x \in B : TRUE
       IN  summary[b[1]][b[2]].minutes + SumBuckets(summary, B \ {b})

\* Every entry starts no later than it ends, and the minutes of all buckets
\* of get_summary add up to the last end minus the first start.
Telescopes(es) ==
  /\ \A i \in 1..Len(es) :
       ClockMinutes(es[i].start_time) <= ClockMinutes(es[i].end_time)
  /\ ~get_summary(es).raised
  /\ SumBuckets(get_summary(es).summary, Buckets(get_summary(es).summary))
       = ClockMinutes(Last(es).end_time) - ClockMinutes(es[1].start_time)

\* C20: when save_entry has just appended the first entry of the day, at
\* least one reminder interval of the settings in force after midnight,
\* the entry starts no later than it ends and the minutes of the day's
\* summary add up to its end minus its start; and so do the entries of
\* every day whose first append was at least 45 minutes after midnight.
C20_DurationsTelescope ==
  /\ ( /\ out.op = "save_entry"
       /\ Len(get_entries(DayFile(today))) = 1
       /\ now >= DictGet(settings, "reminder_interval_minutes", 45) )
       => Telescopes(get_entries(DayFile(today)))
  /\ \A d \in Days :
       ( /\ get_entries(DayFile(d)) # <<>>
         /\ ClockMinutes(get_entries(DayFile(d))[1].end_time)
              >= REMINDER_INTERVAL_MINUTES )
         => Telescopes(get_entries(DayFile(d)))

\* With the interval save_entry uses, REMINDER_INTERVAL_MINUTES, in the
\* place of the one in the settings: the entries of every day whose first
\* append was at least that long after midnight telescope.
C20_WithConstantInterval ==
  \A d \in Days :
    ( /\ get_entries(DayFile(d)) # <<>>
      /\ ClockMinutes(get_entries(DayFile(d))[1].end_time)
           >= REMINDER_INTERVAL_MINUTES )
      => Telescopes(get_entries(DayFile(d)))

\* Two entries appended half an hour apart, in different buckets, add up
\* to 75 minutes.
C20_TwoEntries ==
  LET es == get_entries(DayFile(today))
  IN  /\ Len(es) = 2
      /\ BucketOf(es[1]) # BucketOf(es[2])
      /\ es[1].end_time # es[2].end_time
      /\ Telescopes(es)
      /\ ClockMinutes(es[2].end_time) - ClockMinutes(es[1].start_time) = 75

\* C21: a reminder timer that expires after having expired before, with no
\* start in between (a snoozed period among those that have ended), does
\* so one reminder interval of the settings after its last expiry.
C21_SnoozeShortensOnePeriod ==
  (out.op = "timeout" /\ out.args[1] = "timeout") =>
    out.args[2] = DictGet(settings, "reminder_interval_minutes", 45)

\* Every expiry comes one interval of the timer's last start() after that
\* start or after the expiry before it: the timer repeats, and after a
\* snooze that interval is the snooze duration.
C21_RepeatsAtLastStart ==
  out.op = "timeout" => out.args[2] = reminder_timer.interval

\* The timer expired a second time one snooze duration after the snoozed
\* period had ended, while reminders were paused; with the dialog still
\* visible; after the dialog had been closed.
C21_AgainWhilePaused ==
  /\ out.op = "timeout" /\ out.args[1] = "timeout" /\ out.args[3]
  /\ out.args[2] = DictGet(settings, "snooze_duration_minutes",
                           SNOOZE_DURATION_MINUTES)
  /\ out.args[2] # DictGet(settings, "reminder_interval_minutes", 45)

C21_AgainDialogVisible ==
  /\ out.op = "timeout" /\ out.args[1] = "timeout" /\ out.args[4]
  /\ ~out.args[3]
  /\ out.args[2] # DictGet(settings, "reminder_interval_minutes", 45)

C21_AgainAfterClose ==
  /\ out.op = "timeout" /\ out.args[1] = "timeout" /\ ~out.args[4]
  /\ ~out.args[3]
  /\ out.args[2] # DictGet(settings, "reminder_interval_minutes", 45)

====
